---- MODULE Spec2Model ----
(***************************************************************************)
(* soon-migrate: migration of an Anchor project's Anchor.toml to the SOON  *)
(* network, backup / restore of that file, and the oracle scanner.         *)
(*                                                                         *)
(* The state is the project directory on disk (Anchor.toml, its backup     *)
(* Anchor.toml.bak, Cargo.toml and the directory tree holding the sources) *)
(* plus `last`, the record of the most recent library call and of what it  *)
(* returned.  One action models one whole call of a public entry point.    *)
(* Text is kept as TLA+ strings and taken apart with Len / SubSeq / \o.    *)
(***************************************************************************)
EXTENDS Integers, Sequences, FiniteSets, TLC

VARIABLES anchor, bak, cargo, tree, last

vars == <<anchor, bak, cargo, tree, last>>

(***************************************************************************)
(* Strings                                                                 *)
(***************************************************************************)

UpperLetters == "ABCDEFGHIJKLMNOPQRSTUVWXYZ"

LowerLetters == "abcdefghijklmnopqrstuvwxyz"

\* The character at position i of s, as a one-character string.
CharAt(s, i) == SubSeq(s, i, i)

\* The lowercase of each ASCII capital.
LowerTable ==
    [c \in {CharAt(UpperLetters, i) : i \in 1..26} |->
        CharAt(LowerLetters, CHOOSE i \in 1..26 : CharAt(UpperLetters, i) = c)]

UpperTable ==
    [c \in {CharAt(LowerLetters, i) : i \in 1..26} |->
        CharAt(UpperLetters, CHOOSE i \in 1..26 : CharAt(LowerLetters, i) = c)]

\* char::to_lowercase on the ASCII range.
LowerChar(c) == IF c \in DOMAIN LowerTable THEN LowerTable[c] ELSE c

UpperChar(c) == IF c \in DOMAIN UpperTable THEN UpperTable[c] ELSE c

\* str::to_lowercase: every character lowercased, in place (computed by
\* halves).
RECURSIVE ToLowercase(_)
ToLowercase(s) ==
    IF Len(s) = 0 THEN ""
    ELSE IF Len(s) = 1 THEN LowerChar(s)
    ELSE LET h == Len(s) \div 2
         IN ToLowercase(SubSeq(s, 1, h)) \o ToLowercase(SubSeq(s, h + 1, Len(s)))

\* str::contains with a string pattern: p occurs in s as a substring.
StrContains(s, p) ==
    \E i \in 1..(Len(s) - Len(p) + 1) : SubSeq(s, i, i + Len(p) - 1) = p

(***************************************************************************)
(* Anchor.toml: the bytes on disk and the parsed toml::Value               *)
(***************************************************************************)

MAINNET_RPC == "https://rpc.mainnet.soo.network/rpc"

TESTNET_RPC == "https://rpc.testnet.soo.network/rpc"

DEVNET_RPC == "https://rpc.devnet.soo.network/rpc"

\* The part of a parsed document the rewrite looks at.
\*   ckind   what toml_value["provider"]["cluster"] is: "noprovider" (no
\*           provider key), "nottable" (provider is not a table), "nocluster",
\*           "nonstring" (cluster is not a string) or "string"
\*   cluster the string, when ckind = "string"
\*   pk      what toml_value["programs"] is: "absent", "nottable" or "table"
\*   tbl     the programs table, a set of <<key, value>> pairs with unique keys
\*   extra   every other key of the document, which the rewrite never touches
Doc(ckind, cluster, pk, tbl, extra) ==
    [ckind |-> ckind, cluster |-> cluster, pk |-> pk, tbl |-> tbl, extra |-> extra]

NoDoc == Doc("noprovider", "", "absent", {}, "")

\* A file of the project directory that holds a configuration.
\*   kind   "none" (no such file), "toml" (parses as TOML), "garbage" (does
\*          not parse) or "partial" (left behind by a write that failed)
\*   layout the byte layout of a "toml" file: "user" as the user wrote it
\*          (comments, key order, spacing), "pretty" as toml::to_string_pretty
\*          lays a document out
\* Two files are byte-identical exactly when the records are equal.
NoFile == [kind |-> "none", layout |-> "none", doc |-> NoDoc]

GarbageFile == [kind |-> "garbage", layout |-> "user", doc |-> NoDoc]

PartialFile == [kind |-> "partial", layout |-> "partial", doc |-> NoDoc]

UserFile(doc) == [kind |-> "toml", layout |-> "user", doc |-> doc]

Exists(f) == f.kind # "none"

\* content.parse::<toml::Value>(): the document of a file that parses.
ParsesAsToml(f) == f.kind = "toml"

ParseToml(f) == f.doc

\* toml::to_string_pretty(&toml_value): the document in the serializer's layout.
ToStringPretty(doc) == [kind |-> "toml", layout |-> "pretty", doc |-> doc]

\* toml::Table::get / remove / insert on the programs table.
TableHas(tbl, k) == \E p \in tbl : p[1] = k

TableGet(tbl, k) == (CHOOSE p \in tbl : p[1] = k)[2]

TableRemove(tbl, k) == {p \in tbl : p[1] # k}

TableInsert(tbl, k, v) == TableRemove(tbl, k) \cup {<<k, v>>}

MapNoLowercase(cluster) ==
    IF cluster \in {"mainnet-beta", "mainnet"} THEN MAINNET_RPC
    ELSE IF cluster = "testnet" THEN TESTNET_RPC
    ELSE DEVNET_RPC

map_cluster_to_soon(cluster) ==
    LET lc == ToLowercase(cluster) IN
    IF lc \in {"mainnet-beta", "mainnet"} THEN MAINNET_RPC
    ELSE IF lc = "testnet" THEN TESTNET_RPC
    ELSE DEVNET_RPC

\* "Update the cluster value in the provider section": the document after
\* the step and whether config_changed was set.
UpdateCluster(doc) ==
    IF doc.ckind = "string"
    THEN [doc |-> [doc EXCEPT !.cluster = map_cluster_to_soon(doc.cluster)],
          changed |-> TRUE]
    ELSE [doc |-> doc, changed |-> FALSE]

NetworkNameExact(doc) ==
    IF doc.ckind = "string"
    THEN IF doc.cluster = "mainnet" THEN "mainnet"
         ELSE IF doc.cluster = "testnet" THEN "testnet"
         ELSE "devnet"
    ELSE "devnet"

\* network_name, read from the document after the cluster update.
NetworkName(doc) ==
    IF doc.ckind = "string"
    THEN IF StrContains(doc.cluster, "mainnet") THEN "mainnet"
         ELSE IF StrContains(doc.cluster, "testnet") THEN "testnet"
         ELSE "devnet"
    ELSE "devnet"

UpdateProgramsKeepLocalnet(doc, net) ==
    IF doc.pk = "table" /\ TableHas(doc.tbl, "localnet")
    THEN [doc |-> [doc EXCEPT !.tbl =
                      TableInsert(doc.tbl, net, TableGet(doc.tbl, "localnet"))],
          changed |-> TRUE]
    ELSE [doc |-> doc, changed |-> FALSE]

\* "Update programs section: change programs.localnet to appropriate network".
UpdatePrograms(doc, net) ==
    IF doc.pk = "table" /\ TableHas(doc.tbl, "localnet")
    THEN [doc |-> [doc EXCEPT !.tbl =
                      TableInsert(TableRemove(doc.tbl, "localnet"), net,
                                  TableGet(doc.tbl, "localnet"))],
          changed |-> TRUE]
    ELSE [doc |-> doc, changed |-> FALSE]

\* The in-memory rewrite of run_migration, lines 121-173.
Rewrite(old) ==
    LET c == UpdateCluster(old)
        p == UpdatePrograms(c.doc, NetworkName(c.doc))
    IN [doc |-> p.doc, changed |-> c.changed \/ p.changed]

WriteIgnoringDryRun(dry_run, config_changed) == config_changed

\* The guard of the write-back, `!config.dry_run && config_changed`.
ShouldWrite(dry_run, config_changed) == ~dry_run /\ config_changed

(***************************************************************************)
(* Oracle scanner: text helpers                                            *)
(***************************************************************************)

\* Position of the first "\n" of s at or after i, or Len(s) + 1.
NextNewline(s, i) ==
    LET nl == {j \in i..Len(s) : CharAt(s, j) = "\n"}
    IN IF nl = {} THEN Len(s) + 1 ELSE CHOOSE j \in nl : \A k \in nl : j <= k

RECURSIVE LinesFrom(_, _)
LinesFrom(s, i) ==
    IF i > Len(s) THEN <<>>
    ELSE LET j == NextNewline(s, i)
             raw == SubSeq(s, i, j - 1)
             line == IF Len(raw) > 0 /\ CharAt(raw, Len(raw)) = "\r"
                     THEN SubSeq(raw, 1, Len(raw) - 1) ELSE raw
         IN <<line>> \o LinesFrom(s, j + 1)

\* str::lines: the lines of s without their terminators; a final newline
\* opens no further line.
Lines(s) == LinesFrom(s, 1)

\* Option<T>: None is {}, Some(x) is {x}.
None == {}

Some(x) == {x}

FindLineNumberLowercased(content, pattern) ==
    LET ls == Lines(content)
        hits == {i \in 1..Len(ls) :
                    StrContains(ToLowercase(ls[i]), ToLowercase(pattern))}
    IN IF hits = {} THEN None ELSE Some(CHOOSE i \in hits : \A j \in hits : i <= j)

\* find_line_number: 1-based index of the first line that contains pattern.
find_line_number(content, pattern) ==
    LET ls == Lines(content)
        hits == {i \in 1..Len(ls) : StrContains(ls[i], pattern)}
    IN IF hits = {} THEN None ELSE Some(CHOOSE i \in hits : \A j \in hits : i <= j)

(***************************************************************************)
(* Oracle scanner: detections                                              *)
(***************************************************************************)

DetectionLocation(file_path, line_number, pattern_matched, context) ==
    [file_path |-> file_path, line_number |-> line_number,
     pattern_matched |-> pattern_matched, context |-> context]

OracleDetection(oracle_type, confidence, locations, migration_suggestion) ==
    [oracle_type |-> oracle_type, confidence |-> confidence,
     locations |-> locations, migration_suggestion |-> migration_suggestion]

OracleType == {"Pyth", "Switchboard", "Chainlink", "DIA", "RedStone", "APRO", "Unknown"}

ConfidenceLevel == {"High", "Medium", "Low"}

\* One detection of the manifest scan.
CargoDetection(content, oracle_type, pattern, suggestion) ==
    OracleDetection(oracle_type, "High",
        <<DetectionLocation("Cargo.toml", find_line_number(content, pattern),
                            pattern, "Cargo.toml dependency")>>,
        suggestion)

CargoPyth(content) ==
    IF StrContains(content, "pyth-solana-receiver-sdk")
    THEN <<CargoDetection(content, "Pyth", "pyth-solana-receiver-sdk",
            "Consider migrating to APRO oracle for SOON Network compatibility. APRO provides similar price feed functionality with better performance.")>>
    ELSE <<>>

CargoSwitchboard(content) ==
    IF StrContains(content, "switchboard-v2") \/ StrContains(content, "switchboard_on_demand")
    THEN LET pattern == IF StrContains(content, "switchboard-v2")
                        THEN "switchboard-v2" ELSE "switchboard_on_demand"
         IN <<CargoDetection(content, "Switchboard", pattern,
                "APRO oracle offers customizable data feeds similar to Switchboard with enhanced performance on SOON Network.")>>
    ELSE <<>>

CargoChainlink(content) ==
    IF StrContains(content, "chainlink_solana")
    THEN <<CargoDetection(content, "Chainlink", "chainlink_solana",
            "APRO oracle provides reliable price feeds compatible with Chainlink's API patterns for seamless migration.")>>
    ELSE <<>>

\* A fallible result carrying detections: Ok(dets) or Err(OracleDetectionFailed).
OkDets(dets) == [ok |-> TRUE, dets |-> dets]

ErrDets == [ok |-> FALSE, dets |-> <<>>]

\* scan_cargo_toml.  m is the Cargo.toml of the project directory:
\* [exists, readable, text].
scan_cargo_toml(m) ==
    IF ~m.exists THEN OkDets(<<>>)
    ELSE IF ~m.readable THEN ErrDets
    ELSE OkDets(CargoPyth(m.text) \o CargoSwitchboard(m.text) \o CargoChainlink(m.text))

\* The five pattern lists of scan_rust_content, in the order they are
\* checked.  fold tells whether the loop compares lowercased text.
DiaPatterns == <<"CoinInfo", "// DIA", "dia oracle", "DIA Oracle">>

\* pattern.to_lowercase() of each DIA pattern.
DiaPatternsLowercased == [i \in DOMAIN DiaPatterns |-> ToLowercase(DiaPatterns[i])]

PythProviderMedium ==
    [oracle_type |-> "Pyth", confidence |-> "Medium", fold |-> FALSE,
     patterns |-> <<"use pyth_solana_receiver_sdk", "PriceUpdateV2",
                    "get_price_no_older_than", "pyth_solana_receiver_sdk::">>,
     context |-> "Rust code usage: ",
     suggestion |-> "Replace Pyth price feeds with APRO oracle integration. See APRO documentation for migration guide."]

PythProvider ==
    [oracle_type |-> "Pyth", confidence |-> "High", fold |-> FALSE,
     patterns |-> <<"use pyth_solana_receiver_sdk", "PriceUpdateV2",
                    "get_price_no_older_than", "pyth_solana_receiver_sdk::">>,
     context |-> "Rust code usage: ",
     suggestion |-> "Replace Pyth price feeds with APRO oracle integration. See APRO documentation for migration guide."]

SwitchboardProvider ==
    [oracle_type |-> "Switchboard", confidence |-> "High", fold |-> FALSE,
     patterns |-> <<"use switchboard_v2", "use switchboard_on_demand",
                    "AggregatorAccountData", "get_result", "switchboard_v2::">>,
     context |-> "Rust code usage: ",
     suggestion |-> "Replace Switchboard aggregators with APRO oracle data feeds for SOON Network compatibility."]

ChainlinkProvider ==
    [oracle_type |-> "Chainlink", confidence |-> "High", fold |-> FALSE,
     patterns |-> <<"use chainlink_solana", "latest_round_data",
                    "chainlink_solana::", "chainlink::">>,
     context |-> "Rust code usage: ",
     suggestion |-> "Migrate Chainlink price feeds to APRO oracle for enhanced performance on SOON Network."]

DiaProvider ==
    [oracle_type |-> "DIA", confidence |-> "Low", fold |-> TRUE,
     patterns |-> DiaPatterns,
     context |-> "Potential DIA usage: ",
     suggestion |-> "If using DIA oracle, consider migrating to APRO for better SOON Network integration."]

RedStoneProvider ==
    [oracle_type |-> "RedStone", confidence |-> "Low", fold |-> FALSE,
     patterns |-> <<"redstone", "RedStone", "// RedStone", "wormhole">>,
     context |-> "Potential RedStone usage: ",
     suggestion |-> "If using RedStone oracle, APRO provides similar RWA oracle capabilities for SOON Network."]

SourceProviders ==
    <<PythProvider, SwitchboardProvider, ChainlinkProvider, DiaProvider, RedStoneProvider>>

\* The test of iteration i of a loop: content.contains(pattern), or for the
\* DIA loop content.to_lowercase().contains(&pattern.to_lowercase()).
\* folded is content.to_lowercase().
PatternMatches(content, folded, prov, i) ==
    IF prov.fold THEN StrContains(folded, DiaPatternsLowercased[i])
    ELSE StrContains(content, prov.patterns[i])

SourceDetection(content, file_path, prov, pattern) ==
    OracleDetection(prov.oracle_type, prov.confidence,
        <<DetectionLocation(file_path, find_line_number(content, pattern),
                            pattern, prov.context \o pattern)>>,
        prov.suggestion)

ScanProviderNoBreak(content, file_path, prov) ==
    LET folded == ToLowercase(content)
        RECURSIVE Each(_)
        Each(i) ==
            IF i > Len(prov.patterns) THEN <<>>
            ELSE (IF PatternMatches(content, folded, prov, i)
                  THEN <<SourceDetection(content, file_path, prov, prov.patterns[i])>>
                  ELSE <<>>) \o Each(i + 1)
    IN Each(1)

\* One `for pattern in &..._patterns` loop: a detection for the first pattern
\* that matches, then break.
ScanProvider(content, file_path, prov) ==
    LET folded == ToLowercase(content)
        hits == {i \in 1..Len(prov.patterns) :
                    PatternMatches(content, folded, prov, i)}
    IN IF hits = {} THEN <<>>
       ELSE LET first == CHOOSE i \in hits : \A j \in hits : i <= j
            IN <<SourceDetection(content, file_path, prov, prov.patterns[first])>>

RECURSIVE ScanProvidersFrom(_, _, _)
ScanProvidersFrom(content, file_path, i) ==
    IF i > Len(SourceProviders) THEN <<>>
    ELSE ScanProvider(content, file_path, SourceProviders[i])
         \o ScanProvidersFrom(content, file_path, i + 1)

\* scan_rust_content: the detections of one source file (it never fails).
scan_rust_content(content, file_path) == ScanProvidersFrom(content, file_path, 1)

(***************************************************************************)
(* Oracle scanner: the directory walk                                      *)
(***************************************************************************)

\* A node of the project tree.
\*   kind      "dir" or "file"
\*   readable  fs::read_dir (for a directory) or fs::read_to_string (for a
\*             file) succeeds on it
\*   text      the content of a file
\*   children  the entries of a directory, in the order read_dir yields them
FileNode(name, text) ==
    [name |-> name, kind |-> "file", readable |-> TRUE, text |-> text, children |-> <<>>]

UnreadableFileNode(name) ==
    [name |-> name, kind |-> "file", readable |-> FALSE, text |-> "", children |-> <<>>]

DirNode(name, children) ==
    [name |-> name, kind |-> "dir", readable |-> TRUE, text |-> "", children |-> children]

UnreadableDirNode(name) ==
    [name |-> name, kind |-> "dir", readable |-> FALSE, text |-> "", children |-> <<>>]

\* Path::join
PathJoin(dir, name) == dir \o "/" \o name

\* Position of the last "." of name, 0 if there is none.
LastDot(name) ==
    LET dots == {i \in 1..Len(name) : CharAt(name, i) = "."}
    IN IF dots = {} THEN 0 ELSE CHOOSE i \in dots : \A j \in dots : j <= i

\* Path::extension on the last component: the text after the last dot, None
\* when there is no dot or when the only dot is the leading one.
Extension(name) ==
    LET d == LastDot(name)
    IN IF name = ".." \/ d <= 1 THEN None ELSE Some(SubSeq(name, d + 1, Len(name)))

SkippedDirNames == {"target", "node_modules", ".git"}

NothingSkipped(name) == FALSE

\* "Skip common directories that won't contain oracle code".
IsSkippedDir(name) == name \in SkippedDirNames

OkWalk(visited) == [ok |-> TRUE, visited |-> visited]

WalkErrorSwallowed == [ok |-> TRUE, visited |-> <<>>]

ErrWalk == [ok |-> FALSE, visited |-> <<>>]

\* walk_directory(dir, callback): the files the callback is applied to, in
\* order, each as [path, node]; or the error of the first read_dir that fails.
RECURSIVE walk_directory(_, _), WalkEntries(_, _, _)
walk_directory(dir, path) ==
    IF dir.kind # "dir" THEN OkWalk(<<>>)
    ELSE IF ~dir.readable THEN ErrWalk
    ELSE WalkEntries(dir.children, 1, path)

WalkEntries(entries, i, path) ==
    IF i > Len(entries) THEN OkWalk(<<>>)
    ELSE LET e == entries[i]
             p == PathJoin(path, e.name)
             here == IF e.kind = "dir"
                     THEN IF IsSkippedDir(e.name) THEN OkWalk(<<>>)
                          ELSE walk_directory(e, p)
                     ELSE OkWalk(<<[path |-> p, node |-> e]>>)
         IN IF ~here.ok THEN ErrWalk
            ELSE LET rest == WalkEntries(entries, i + 1, path)
                 IN IF ~rest.ok THEN ErrWalk
                    ELSE OkWalk(here.visited \o rest.visited)

\* The closure scan_rust_files hands to walk_directory, applied to one file.
VisitFile(v) ==
    IF Extension(v.node.name) = Some("rs") /\ v.node.readable
    THEN scan_rust_content(v.node.text, v.path)
    ELSE <<>>

RECURSIVE VisitAll(_, _)
VisitAll(visited, i) ==
    IF i > Len(visited) THEN <<>>
    ELSE VisitFile(visited[i]) \o VisitAll(visited, i + 1)

\* scan_rust_files
scan_rust_files(root, path) ==
    LET w == walk_directory(root, path)
    IN IF ~w.ok THEN ErrDets ELSE OkDets(VisitAll(w.visited, 1))

(***************************************************************************)
(* Oracle scanner: merge, recommendations, guide, report                   *)
(***************************************************************************)

MergeConfidenceLastWins(existing, incoming) == incoming

\* "Use highest confidence": the confidence of a map entry after a further
\* detection of its type is merged in.
MergeConfidence(existing, incoming) ==
    IF incoming = "High" THEN "High"
    ELSE IF incoming = "Medium" /\ existing = "Low" THEN "Medium"
    ELSE existing

MergeLocationsKeepFirst(existing, incoming) == existing

MergeLocationsPrepend(existing, incoming) == incoming \o existing

\* "Merge locations": existing.locations.extend(detection.locations)
MergeLocations(existing, incoming) == existing \o incoming

MergeOneAlwaysInsert(oracle_map, detection) == oracle_map \cup {detection}

MergeOneLastSuggestion(oracle_map, detection) ==
    IF \E e \in oracle_map : e.oracle_type = detection.oracle_type
    THEN LET existing == CHOOSE e \in oracle_map : e.oracle_type = detection.oracle_type
         IN (oracle_map \ {existing}) \cup
            {[detection EXCEPT
                !.locations = existing.locations \o detection.locations,
                !.confidence = IF existing.confidence = "High"
                               THEN "High" ELSE detection.confidence]}
    ELSE oracle_map \cup {detection}

\* One iteration of the loop of merge_detections on oracle_map, the set of
\* the map's values (the key of a value is its oracle_type in Debug form).
MergeOne(oracle_map, detection) ==
    IF \E e \in oracle_map : e.oracle_type = detection.oracle_type
    THEN LET existing == CHOOSE e \in oracle_map : e.oracle_type = detection.oracle_type
         IN (oracle_map \ {existing}) \cup
            {[existing EXCEPT
                !.locations = MergeLocations(existing.locations, detection.locations),
                !.confidence = MergeConfidence(existing.confidence, detection.confidence)]}
    ELSE oracle_map \cup {detection}

RECURSIVE MergeFrom(_, _, _)
MergeFrom(detections, i, oracle_map) ==
    IF i > Len(detections) THEN oracle_map
    ELSE MergeFrom(detections, i + 1, MergeOne(oracle_map, detections[i]))

\* The HashMap merge_detections ends with, as the set of its values.
MergedMap(detections) == MergeFrom(detections, 1, {})

\* oracle_map.into_values().collect(): the values in some order; the order of
\* a HashMap iteration is unspecified, so every order is an outcome.
ValueOrders(oracle_map) ==
    {s \in [1..Cardinality(oracle_map) -> oracle_map] :
        \A i, j \in DOMAIN s : i # j => s[i] # s[j]}

\* merge_detections: the lists it can return.
merge_detections(detections) == ValueOrders(MergedMap(detections))

\* The icons of the report lines, written as ASCII names.
ConfidenceIcon(confidence) ==
    CASE confidence = "High" -> "(red)"
      [] confidence = "Medium" -> "(yellow)"
      [] confidence = "Low" -> "(green)"

LocationLine(location) ==
    IF location.line_number # None
    THEN "   (folder) " \o location.file_path \o ":"
         \o ToString(CHOOSE n \in location.line_number : TRUE)
         \o " - " \o location.pattern_matched
    ELSE "   (folder) " \o location.file_path \o " - " \o location.pattern_matched

RECURSIVE LocationLines(_, _)
LocationLines(locations, i) ==
    IF i > Len(locations) THEN <<>>
    ELSE <<LocationLine(locations[i])>> \o LocationLines(locations, i + 1)

DetectionLines(detection) ==
    <<ConfidenceIcon(detection.confidence) \o " " \o detection.oracle_type
        \o " Oracle detected with " \o ToLowercase(detection.confidence) \o " confidence">>
    \o LocationLines(detection.locations, 1)
    \o <<"   (bulb) " \o detection.migration_suggestion, "">>

RECURSIVE AllDetectionLines(_, _)
AllDetectionLines(detections, i) ==
    IF i > Len(detections) THEN <<>>
    ELSE DetectionLines(detections[i]) \o AllDetectionLines(detections, i + 1)

NoOracleLine ==
    "No oracle usage detected. Your project should migrate smoothly to SOON Network."

RecommendationsNoEarlyReturn(detections) ==
    <<"(search) Oracle usage detected in your project. Consider these migration steps:", "">>
    \o AllDetectionLines(detections, 1)
    \o <<"(books) Next steps:",
         "1. Review the APRO oracle integration guide generated below",
         "2. Update your dependencies to use APRO oracle SDK",
         "3. Replace oracle-specific code with APRO equivalents",
         "4. Test your price feed integrations on SOON devnet">>

generate_recommendations(detections) ==
    IF detections = <<>> THEN <<NoOracleLine>>
    ELSE <<"(search) Oracle usage detected in your project. Consider these migration steps:", "">>
         \o AllDetectionLines(detections, 1)
         \o <<"(books) Next steps:",
              "1. Review the APRO oracle integration guide generated below",
              "2. Update your dependencies to use APRO oracle SDK",
              "3. Replace oracle-specific code with APRO equivalents",
              "4. Test your price feed integrations on SOON devnet">>

\* The text generate_apro_guide builds, kept as the sequence of the pieces
\* it pushes onto the string.  The Markdown code fence, three backquotes, is
\* written as three apostrophes.
GuidePreamble ==
    <<"# APRO Oracle Integration Guide for SOON Network\n\n",
      "## Overview\n",
      "APRO has chosen SOON as their first SVM chain to support oracle services. ",
      "This guide will help you migrate your existing oracle integrations.\n\n",
      "## Program IDs\n",
      "'''\n",
      "Devnet:  4Mvy4RKRyJMf4PHavvGUuTj9agoddUZ9atQoFma1tyMY\n",
      "Mainnet: 4Mvy4RKRyJMf4PHavvGUuTj9agoddUZ9atQoFma1tyMY\n",
      "'''\n\n",
      "## API Endpoints\n",
      "'''\n",
      "Devnet:  https://live-api-test.apro.com\n",
      "Mainnet: https://live-api.apro.com\n",
      "'''\n\n">>

PythSection ==
    <<"## Migrating from Pyth\n",
      "Replace your Pyth price feed calls:\n",
      "'''rust\n",
      "// Before (Pyth)\n",
      "use pyth_solana_receiver_sdk::PriceUpdateV2;\n",
      "let price = price_update.get_price_no_older_than(&clock, max_age)?;\n\n",
      "// After (APRO)\n",
      "use oracle_sdk::load_price_feed_from_account_info;\n",
      "let price_feed = load_price_feed_from_account_info(&price_account)?;\n",
      "let price = price_feed.benchmark_price;\n",
      "'''\n\n">>

SwitchboardSection ==
    <<"## Migrating from Switchboard\n",
      "Replace your Switchboard aggregator calls:\n",
      "'''rust\n",
      "// Before (Switchboard)\n",
      "use switchboard_v2::AggregatorAccountData;\n",
      "let result = aggregator.get_result()?;\n\n",
      "// After (APRO)\n",
      "use oracle_sdk::load_price_feed_from_account_info;\n",
      "let price_feed = load_price_feed_from_account_info(&price_account)?;\n",
      "let result = price_feed.benchmark_price;\n",
      "'''\n\n">>

ChainlinkSection ==
    <<"## Migrating from Chainlink\n",
      "Replace your Chainlink price feed calls:\n",
      "'''rust\n",
      "// Before (Chainlink)\n",
      "use chainlink_solana as chainlink;\n",
      "let round_data = chainlink::latest_round_data(ctx, &feed_account)?;\n\n",
      "// After (APRO)\n",
      "use oracle_sdk::load_price_feed_from_account_info;\n",
      "let price_feed = load_price_feed_from_account_info(&price_account)?;\n",
      "let price = price_feed.benchmark_price;\n",
      "'''\n\n">>

GuideFooter ==
    <<"## Available Price Feeds (Devnet)\n",
      "- BTC/USD: 0x0003665949c883f9e0f6f002eac32e00bd59dfe6c34e92a91c37d6a8322d6489\n",
      "- ETH/USD: 0x0003555ace6b39aae1b894097d0a9fc17f504c62fea598fa206cc6f5088e6e45\n",
      "- SOL/USD: 0x000343ec7f6691d6bf679978bab5c093fa45ee74c0baac6cc75649dc59cc21d3\n",
      "- USDT/USD: 0x00039a0c0be4e43cacda1599ac414205651f4a62b614b6be9e5318a182c33eb0\n",
      "- USDC/USD: 0x00034b881a0c0fff844177f881a313ff894bfc6093d33b5514e34d7faa41b7ef\n\n",
      "## Getting Started\n",
      "1. Contact APRO BD team for authorization:\n",
      "   - Email: bd@apro.com\n",
      "   - Telegram: Head of Business Development\n",
      "2. Add APRO oracle SDK to your Cargo.toml\n",
      "3. Update your price feed integration code\n",
      "4. Test on SOON devnet before mainnet deployment\n\n",
      "For detailed integration examples, see the complete APRO documentation.\n">>

\* The arm of `match detection.oracle_type` for one detection.
GuideSectionForEveryType(detection) ==
    <<"## Migrating from " \o detection.oracle_type \o "\n">>

GuideSection(detection) ==
    CASE detection.oracle_type = "Pyth" -> PythSection
      [] detection.oracle_type = "Switchboard" -> SwitchboardSection
      [] detection.oracle_type = "Chainlink" -> ChainlinkSection
      [] OTHER -> <<>>

RECURSIVE GuideSections(_, _)
GuideSections(detections, i) ==
    IF i > Len(detections) THEN <<>>
    ELSE GuideSection(detections[i]) \o GuideSections(detections, i + 1)

generate_apro_guide(detections) ==
    GuidePreamble \o GuideSections(detections, 1) \o GuideFooter

AproGuideAlways(merged_detections) == Some(generate_apro_guide(merged_detections))

\* "Generate APRO integration guide if oracles detected"
AproGuide(merged_detections) ==
    IF merged_detections # <<>>
    THEN Some(generate_apro_guide(merged_detections))
    ELSE None

OracleReport(merged_detections) ==
    [detected_oracles |-> merged_detections,
     migration_recommendations |-> generate_recommendations(merged_detections),
     apro_integration_guide |-> AproGuide(merged_detections)]

\* What a call without a report carries in its place.
NoReport ==
    [detected_oracles |-> <<>>, migration_recommendations |-> <<>>,
     apro_integration_guide |-> None]

OkScan(report) == [ok |-> TRUE, report |-> report]

ErrScan == [ok |-> FALSE, report |-> NoReport]

\* The project directory is scanned under this path.
ProjectPath == "proj"

\* scan_project(path, verbose): every result the call can have on the
\* project (m is its Cargo.toml, root its directory tree).  There is more
\* than one only through the order in which merge_detections lists the types.
scan_project(m, root) ==
    LET cargo_detections == scan_cargo_toml(m)
    IN IF ~cargo_detections.ok THEN {ErrScan}
       ELSE LET code_detections == scan_rust_files(root, ProjectPath)
            IN IF ~code_detections.ok THEN {ErrScan}
               ELSE {OkScan(OracleReport(merged)) :
                        merged \in merge_detections(cargo_detections.dets
                                                    \o code_detections.dets)}

(***************************************************************************)
(* The entry points of migration.rs                                        *)
(***************************************************************************)

ValidateAnchorTomlOnly(a, m) == Exists(a)

\* validate_anchor_project: Ok(()) exactly when Anchor.toml and Cargo.toml
\* both exist at the path.
validate_anchor_project(a, m) == Exists(a) /\ m.exists

NeverOracleOnly(oracle_only) == FALSE

\* `if config.oracle_only { return Ok(result); }`
SkipsMigration(oracle_only) == oracle_only

WarnForEveryDetection(detections, i) ==
    [j \in 1..Len(detections) |->
        detections[j].oracle_type
          \o " oracle detected - migration required for SOON compatibility"]

\* The general warning and one warning per High detection of the report.
RECURSIVE HighWarnings(_, _)
HighWarnings(detections, i) ==
    IF i > Len(detections) THEN <<>>
    ELSE (IF detections[i].confidence = "High"
          THEN <<detections[i].oracle_type
                   \o " oracle detected - migration required for SOON compatibility">>
          ELSE <<>>) \o HighWarnings(detections, i + 1)

Warnings(report) ==
    IF report.detected_oracles # <<>>
    THEN <<"Oracle usage detected in your project. Review the oracle migration recommendations.">>
         \o HighWarnings(report.detected_oracles, 1)
    ELSE <<>>

NextSteps ==
    <<"1. Update your dependencies if using oracles",
      "2. Test your project on SOON devnet",
      "3. Review oracle integration if detected",
      "4. Deploy to SOON Network">>

\* What `last` holds before any call.  For a call: op names the entry point,
\* res is "Ok" or the MigrationError variant returned, config_updated /
\* has_report / report / warnings / next_steps are the fields of the value
\* returned (has_report is oracle_report.is_some()), steps lists in order the
\* effects the call got to, pre is Anchor.toml as it was on disk when the
\* call began.  origin is history kept for run_migration: Anchor.toml as it
\* was before the first call of the unbroken series of successful
\* run_migration calls without oracle_only that this call continues.
\* detections and merged are the argument and the value of a call of
\* merge_detections made on its own.
\* stack and visited are the walk_directory calls in progress and the files
\* its callback was applied to, in a scan taken step by step.  verbose and
\* printed are the argument and the output of a print_report.
NoCall ==
    [op |-> "none", dry_run |-> FALSE, oracle_only |-> FALSE, res |-> "none",
     config_updated |-> FALSE, has_report |-> FALSE, report |-> NoReport,
     warnings |-> <<>>, next_steps |-> <<>>, steps |-> <<>>,
     pre |-> NoFile, origin |-> NoFile,
     detections |-> <<>>, merged |-> <<>>,
     stack |-> <<>>, visited |-> <<>>,
     verbose |-> FALSE, printed |-> <<>>]

\* The call before was a run_migration that went through the migration of
\* Anchor.toml and returned Ok.
ContinuesMigrations ==
    last.op = "migrate" /\ last.res = "Ok" /\ ~last.oracle_only

ReturnAfterEarlyWrite(a, b, l) ==
    /\ anchor' = IF l.res \in {"BackupFailed", "ReadFailed", "TomlParseError"}
                 THEN PartialFile ELSE a
    /\ bak' = b
    /\ last' = l
    /\ UNCHANGED <<cargo, tree>>

\* The call ends: a and b are Anchor.toml and Anchor.toml.bak as it leaves
\* them, l is its record.  No entry point writes Cargo.toml or the sources.
Return(a, b, l) ==
    /\ anchor' = a
    /\ bak' = b
    /\ last' = l
    /\ UNCHANGED <<cargo, tree>>

\* A file an interrupted fs::copy leaves at the destination: the destination
\* untouched, or partly written.
AfterFailedCopy(dest) == {dest, PartialFile}

\* A file an interrupted fs::write leaves: untouched, or truncated and partly
\* written.
AfterFailedWrite(dest) == {dest, PartialFile}

\* Whether one call into the file system succeeds.
IoOutcomes == {"ok", "fails"}

BackupOfRewritten(a) ==
    IF ParsesAsToml(a) THEN ToStringPretty(Rewrite(ParseToml(a)).doc) ELSE a

\* fs::copy(&anchor_toml_path, &backup_path) succeeding: what is at the
\* backup path afterwards, a being Anchor.toml as the copy finds it.
BackupCopy(a) == a

\* run_migration(config).  scan is the result scan_project has when the run
\* gets to it; each of fs::copy, fs::read_to_string and fs::write may fail.
run_migration(dry_run, oracle_only, scan) ==
    LET call == [NoCall EXCEPT !.op = "migrate", !.dry_run = dry_run,
                               !.oracle_only = oracle_only,
                               !.pre = anchor,
                               !.origin = IF ContinuesMigrations
                                          THEN last.origin ELSE anchor]
    IN
    IF ~validate_anchor_project(anchor, cargo)
    THEN Return(anchor, bak, [call EXCEPT !.res = "NotAnAnchorProject"])
    ELSE IF ~scan.ok
    THEN Return(anchor, bak,
                [call EXCEPT !.res = "OracleDetectionFailed", !.steps = <<"scan">>])
    ELSE
    LET scanned == [call EXCEPT !.has_report = TRUE, !.report = scan.report,
                                !.steps = <<"scan">>]
    IN
    IF SkipsMigration(oracle_only)
    THEN Return(anchor, bak, [scanned EXCEPT !.res = "Ok"])
    ELSE \E copy \in IoOutcomes :
    IF copy = "fails"
    THEN \E b \in AfterFailedCopy(bak) :
            Return(anchor, b, [scanned EXCEPT !.res = "BackupFailed"])
    ELSE
    LET backup == BackupCopy(anchor)
        backed == [scanned EXCEPT !.steps = <<"scan", "backup">>]
    IN
    \E read \in IoOutcomes :
    IF read = "fails"
    THEN Return(anchor, backup, [backed EXCEPT !.res = "ReadFailed"])
    ELSE IF ~ParsesAsToml(anchor)
    THEN Return(anchor, backup, [backed EXCEPT !.res = "TomlParseError"])
    ELSE
    LET rw == Rewrite(ParseToml(anchor))
        done == [backed EXCEPT !.warnings = Warnings(scan.report),
                               !.next_steps = NextSteps]
    IN
    IF ShouldWrite(dry_run, rw.changed)
    THEN \E write \in IoOutcomes :
         IF write = "fails"
         THEN \E a \in AfterFailedWrite(anchor) :
                 Return(a, backup, [done EXCEPT !.res = "WriteFailed"])
         ELSE Return(ToStringPretty(rw.doc), backup,
                     [done EXCEPT !.res = "Ok", !.config_updated = TRUE,
                                  !.steps = <<"scan", "backup", "write">>])
    ELSE Return(anchor, backup, [done EXCEPT !.res = "Ok"])

\* run_oracle_scan_only(config)
run_oracle_scan_only(scan) ==
    LET call == [NoCall EXCEPT !.op = "scan_only", !.pre = anchor]
    IN
    IF ~validate_anchor_project(anchor, cargo)
    THEN Return(anchor, bak, [call EXCEPT !.res = "NotAnAnchorProject"])
    ELSE
      IF ~scan.ok
      THEN Return(anchor, bak,
                  [call EXCEPT !.res = "OracleDetectionFailed", !.steps = <<"scan">>])
      ELSE Return(anchor, bak,
                  [call EXCEPT !.res = "Ok", !.has_report = TRUE,
                               !.report = scan.report, !.steps = <<"scan">>])

\* OracleDetector::scan_project called on its own (it is public).
ScanProjectCall(scan) ==
    LET call == [NoCall EXCEPT !.op = "scan", !.pre = anchor, !.steps = <<"scan">>]
    IN
      IF ~scan.ok
      THEN Return(anchor, bak, [call EXCEPT !.res = "OracleDetectionFailed"])
      ELSE Return(anchor, bak,
                  [call EXCEPT !.res = "Ok", !.has_report = TRUE, !.report = scan.report])

BackupAlwaysThere(b) == FALSE

\* `if !backup_path.exists()`
BackupMissing(b) == ~Exists(b)

KeepBackup(b) == b

\* fs::remove_file(backup_path): what is at the backup path afterwards.
RemoveBackup(b) == NoFile

\* restore_backup(path); each of fs::copy and fs::remove_file may fail.
restore_backup ==
    LET call == [NoCall EXCEPT !.op = "restore", !.pre = anchor]
    IN
    IF BackupMissing(bak)
    THEN Return(anchor, bak, [call EXCEPT !.res = "BackupNotFound"])
    ELSE \E copy \in IoOutcomes :
    IF copy = "fails"
    THEN \E a \in AfterFailedCopy(anchor) :
            Return(a, bak, [call EXCEPT !.res = "RestoreFailed"])
    ELSE \E remove \in IoOutcomes :
    IF remove = "fails"
    THEN Return(bak, bak, [call EXCEPT !.res = "RestoreFailed", !.steps = <<"copy">>])
    ELSE Return(bak, RemoveBackup(bak),
                [call EXCEPT !.res = "Ok", !.steps = <<"copy", "remove">>])

(***************************************************************************)
(* The projects the tool is run on                                         *)
(***************************************************************************)

\* The largest number of source files that use Pyth in a generated project.
MaxCopies == 2

ClusterNames ==
    {"mainnet-beta", "Mainnet-Beta", "mainnet", "MAINNET", "testnet", "TestNet",
     "devnet", "DEVNET", "localnet", "my-mainnet-fork"}

ProgramTables ==
    {{}, {<<"localnet", "ids_a">>},
     {<<"localnet", "ids_a">>, <<"devnet", "ids_b">>},
     {<<"mainnet", "ids_b">>}}

AnchorDocs ==
    {Doc("string", c, "table", {<<"localnet", "ids_a">>}, "features") : c \in ClusterNames}
    \cup {Doc("string", c, "table", t, "features") :
            c \in {"mainnet-beta", "devnet"}, t \in ProgramTables}
    \cup {Doc("string", c, pk, {}, "features") :
            c \in {"mainnet-beta", "devnet"}, pk \in {"absent", "nottable"}}
    \cup {Doc(ck, "", "table", {<<"localnet", "ids_a">>}, "features") :
            ck \in {"noprovider", "nottable", "nocluster", "nonstring"}}
    \cup {Doc("nocluster", "", "absent", {}, "features")}

\* What can be at <path>/Anchor.toml when the tool is first run.
AnchorFiles == {UserFile(d) : d \in AnchorDocs} \cup {GarbageFile, NoFile}

\* The Anchor.toml of the tests of migration.rs.
TestAnchorFile ==
    UserFile(Doc("string", "devnet", "table", {<<"localnet", "ids_a">>}, "features"))

\* A backup an earlier session left at <path>/Anchor.toml.bak.
StaleBackup ==
    UserFile(Doc("string", "testnet", "table", {<<"localnet", "ids_c">>}, "old"))

Manifest(text) == [exists |-> TRUE, readable |-> TRUE, text |-> text]

NoManifest == [exists |-> FALSE, readable |-> FALSE, text |-> ""]

UnreadableManifest == [exists |-> TRUE, readable |-> FALSE, text |-> ""]

PlainCargo ==
    Manifest("[dependencies]\nanchor-lang = \"0.28.0\"\n")

PythCargo ==
    Manifest("[dependencies]\npyth-solana-receiver-sdk = \"0.2.0\"\n")

FeedsCargo ==
    Manifest("[dependencies]\nchainlink_solana = \"1.0\"\nswitchboard_on_demand = \"0.1\"\n")

PlainSource == "use anchor_lang::prelude::*;\n"

PythImport == "mod a;\nuse pyth_solana_receiver_sdk::PriceUpdateV2;\n"

PythCall == "// price\nlet p = u.get_price_no_older_than(&c, 60)?;\n"

SwitchboardSource == "let r = agg.get_result()?;\r\nuse switchboard_v2::AggregatorAccountData;\r\n"

ChainlinkSource == "let d = chainlink::latest_round_data(ctx, &feed)?;"

DiaSource == "fn f() {}\n// dia ORACLE feed\n"

WormholeSource == "// REDSTONE\nuse wormhole_sdk;\n"

RedStoneUpperSource == "// REDSTONE feed\n"

\* The n-th generated source file that uses Pyth.
PythCopy(n) ==
    FileNode("m" \o ToString(n) \o ".rs", IF n % 2 = 1 THEN PythImport ELSE PythCall)

\* A project with Pyth in its manifest and in n of its source files.
PythProject(n) ==
    [cargo |-> PythCargo,
     tree |-> DirNode("proj",
                <<DirNode("src", <<FileNode("lib.rs", PlainSource)>>
                                 \o [i \in 1..n |-> PythCopy(i)])>>)]

PlainTree == DirNode("proj", <<DirNode("src", <<FileNode("lib.rs", PlainSource)>>)>>)

\* Oracle code only below directories the walk skips, or in files that are
\* not .rs files.
SkippedTree ==
    DirNode("proj",
      <<DirNode("target", <<DirNode("debug", <<FileNode("gen.rs", PythImport)>>)>>),
        FileNode("notes.txt", PythCall),
        FileNode(".rs", PythCall),
        DirNode("src", <<FileNode("lib.rs", PlainSource),
                         DirNode("node_modules", <<FileNode("x.rs", ChainlinkSource)>>)>>),
        DirNode(".git", <<UnreadableDirNode("objects")>>)>>)

MixedTree ==
    DirNode("proj",
      <<DirNode("tests", <<UnreadableFileNode("t.rs")>>),
        DirNode("programs",
          <<DirNode("a", <<DirNode("src", <<FileNode("lib.rs", SwitchboardSource),
                                            FileNode("dia.rs", DiaSource)>>)>>)>>)>>)

WeakTree ==
    DirNode("proj", <<DirNode("src", <<FileNode("dia.rs", DiaSource),
                                       FileNode("red.rs", WormholeSource),
                                       FileNode("up.rs", RedStoneUpperSource)>>)>>)

CodeOnlyTree ==
    DirNode("target", <<FileNode("feed.rs", ChainlinkSource \o "\n" \o PythCall)>>)

UnreadableDirTree ==
    DirNode("proj", <<DirNode("src", <<FileNode("lib.rs", PythImport)>>),
                      UnreadableDirNode("secret")>>)

Project(m, t) == [cargo |-> m, tree |-> t]

Projects ==
    {PythProject(n) : n \in 0..MaxCopies}
    \cup {Project(PlainCargo, PlainTree), Project(PlainCargo, SkippedTree),
          Project(FeedsCargo, MixedTree), Project(PlainCargo, WeakTree),
          Project(PlainCargo, CodeOnlyTree), Project(PlainCargo, UnreadableDirTree),
          Project(UnreadableManifest, PlainTree), Project(NoManifest, WeakTree)}

PlainProject == Project(PlainCargo, PlainTree)

\* The starting points: every Anchor.toml on a project without oracles, the
\* test Anchor.toml on every project, and a few projects that already hold
\* a backup.
Starts ==
    {[anchor |-> a, bak |-> NoFile, project |-> PlainProject] : a \in AnchorFiles}
    \cup {[anchor |-> TestAnchorFile, bak |-> NoFile, project |-> p] : p \in Projects}
    \cup {[anchor |-> a, bak |-> StaleBackup, project |-> p] :
            a \in {TestAnchorFile, NoFile},
            p \in {PlainProject, Project(NoManifest, WeakTree)}}

(***************************************************************************)
(* Specification                                                           *)
(***************************************************************************)

Init ==
    /\ \E s \in Starts :
          /\ anchor = s.anchor
          /\ bak = s.bak
          /\ cargo = s.project.cargo
          /\ tree = s.project.tree
    /\ last = NoCall

RunMigration ==
    \E scan \in scan_project(cargo, tree) :
        \E dry_run \in BOOLEAN, oracle_only \in BOOLEAN :
            run_migration(dry_run, oracle_only, scan)

RunOracleScanOnly == \E scan \in scan_project(cargo, tree) : run_oracle_scan_only(scan)

ScanProject == \E scan \in scan_project(cargo, tree) : ScanProjectCall(scan)

RestoreBackup == restore_backup

Next == RunMigration \/ RunOracleScanOnly \/ ScanProject \/ RestoreBackup

Spec == Init /\ [][Next]_vars

(***************************************************************************)
(* merge_detections on its own, on lists the scanner does not produce      *)
(***************************************************************************)

\* The longest list merged.
MaxDetections == 3

\* Detections of two types in every confidence; the location tells them
\* apart.  One detection has two locations.
SampleDetections ==
    {OracleDetection(t, c, <<DetectionLocation("src/" \o c \o ".rs", None, t, "")>>, "")
        : t \in {"Pyth", "Unknown"}, c \in ConfidenceLevel}
    \cup {OracleDetection("Pyth", "Low",
              <<DetectionLocation("Cargo.toml", Some(2), "pyth", ""),
                DetectionLocation("src/x.rs", Some(1), "pyth", "")>>, "")}

SampleLists ==
    UNION {[1..n -> SampleDetections] : n \in 0..MaxDetections}

InitMerge ==
    /\ anchor = NoFile /\ bak = NoFile
    /\ cargo = NoManifest /\ tree = PlainTree
    /\ \E ds \in SampleLists : last = [NoCall EXCEPT !.detections = ds]

MergeDetections ==
    /\ last.op = "none"
    /\ \E out \in merge_detections(last.detections) :
          last' = [last EXCEPT !.op = "merge", !.merged = out]
    /\ UNCHANGED <<anchor, bak, cargo, tree>>

NextMerge == MergeDetections

SpecMerge == InitMerge /\ [][NextMerge]_vars

(***************************************************************************)
(* scan_project step by step: one step per entry of a directory            *)
(***************************************************************************)

\* A call of walk_directory in progress: the directory, its path and the
\* entries fs::read_dir has not yielded yet (it yields them in any order).
Frame(dir, path) ==
    [dir |-> dir, path |-> path, left |-> 1..Len(dir.children)]

Top == last.stack[Len(last.stack)]

Caller == SubSeq(last.stack, 1, Len(last.stack) - 1)

\* The stack after the topmost call took entry i of its directory.
Taken(i) == Caller \o <<[Top EXCEPT !.left = @ \ {i}]>>

Walking == last.op = "walking"

InitWalk ==
    /\ anchor = NoFile /\ bak = NoFile
    /\ \E p \in Projects : cargo = p.cargo /\ tree = p.tree
    /\ last = NoCall

\* Every file below node, each with its path and whether a directory on
\* the way to it, node itself apart, has one of the three pruned names.
RECURSIVE FilesBelow(_, _, _)
FilesBelow(node, path, pruned) ==
    IF node.kind = "file" THEN {[path |-> path, node |-> node, pruned |-> pruned]}
    ELSE UNION {FilesBelow(node.children[i], PathJoin(path, node.children[i].name),
                           \/ pruned
                           \/ /\ node.children[i].kind = "dir"
                              /\ node.children[i].name \in {"target", "node_modules", ".git"})
                : i \in 1..Len(node.children)}

\* The files of the projects, as the walk hands them to the callback.
ProjectFiles ==
    {[path |-> f.path, node |-> f.node] :
        f \in UNION {FilesBelow(p.tree, ProjectPath, FALSE) : p \in Projects}}

\* What the callback of scan_rust_files finds in each of them.
CallbackResults == [v \in ProjectFiles |-> VisitFile(v)]

\* code_detections after the callback was applied to visited[i], ...
RECURSIVE CodeDetections(_, _)
CodeDetections(visited, i) ==
    IF i > Len(visited) THEN <<>>
    ELSE CallbackResults[visited[i]] \o CodeDetections(visited, i + 1)

\* scan_cargo_toml fails: scan_project returns its error.
ManifestReadFails ==
    /\ last.op = "none"
    /\ ~scan_cargo_toml(cargo).ok
    /\ last' = [last EXCEPT !.op = "scan", !.res = "OracleDetectionFailed"]
    /\ UNCHANGED <<anchor, bak, cargo, tree>>

\* scan_rust_files calls walk_directory on the project directory.
StartWalk ==
    /\ last.op = "none"
    /\ scan_cargo_toml(cargo).ok
    /\ last' = IF tree.kind # "dir" THEN [last EXCEPT !.op = "walking"]
               ELSE IF ~tree.readable
               THEN [last EXCEPT !.op = "scan", !.res = "OracleDetectionFailed"]
               ELSE [last EXCEPT !.op = "walking",
                                 !.stack = <<Frame(tree, ProjectPath)>>]
    /\ UNCHANGED <<anchor, bak, cargo, tree>>

\* The next entry is not a directory: the callback is applied to it.
VisitEntry ==
    /\ Walking /\ last.stack # <<>>
    /\ \E i \in Top.left :
          LET e == Top.dir.children[i]
          IN /\ e.kind # "dir"
             /\ last' = [last EXCEPT
                            !.stack = Taken(i),
                            !.visited = @ \o <<[path |-> PathJoin(Top.path, e.name),
                                                node |-> e]>>]
    /\ UNCHANGED <<anchor, bak, cargo, tree>>

\* The next entry is a directory with one of the three names: `continue`.
SkipDirectory ==
    /\ Walking /\ last.stack # <<>>
    /\ \E i \in Top.left :
          LET e == Top.dir.children[i]
          IN /\ e.kind = "dir" /\ IsSkippedDir(e.name)
             /\ last' = [last EXCEPT !.stack = Taken(i)]
    /\ UNCHANGED <<anchor, bak, cargo, tree>>

\* The next entry is another directory, and fs::read_dir opens it.
EnterDirectory ==
    /\ Walking /\ last.stack # <<>>
    /\ \E i \in Top.left :
          LET e == Top.dir.children[i]
          IN /\ e.kind = "dir" /\ ~IsSkippedDir(e.name) /\ e.readable
             /\ last' = [last EXCEPT
                            !.stack = Taken(i) \o <<Frame(e, PathJoin(Top.path, e.name))>>]
    /\ UNCHANGED <<anchor, bak, cargo, tree>>

\* The next entry is another directory, and fs::read_dir fails on it: the
\* error goes up through every call with `?` and scan_project returns it.
ReadDirFails ==
    /\ Walking /\ last.stack # <<>>
    /\ \E i \in Top.left :
          LET e == Top.dir.children[i]
          IN e.kind = "dir" /\ ~IsSkippedDir(e.name) /\ ~e.readable
    /\ last' = [last EXCEPT !.op = "scan", !.res = "OracleDetectionFailed",
                            !.stack = <<>>]
    /\ UNCHANGED <<anchor, bak, cargo, tree>>

\* The entries of the directory are exhausted: the call returns Ok(()).
LeaveDirectory ==
    /\ Walking /\ last.stack # <<>>
    /\ Top.left = {}
    /\ last' = [last EXCEPT !.stack = Caller]
    /\ UNCHANGED <<anchor, bak, cargo, tree>>

\* The walk returned Ok(()): scan_project merges what the manifest and the
\* callback found and returns the report.
FinishScan ==
    /\ Walking /\ last.stack = <<>>
    /\ \E detected_oracles \in {scan_cargo_toml(cargo).dets
                                 \o CodeDetections(last.visited, 1)} :
       \E merged \in merge_detections(detected_oracles) :
       \E report \in {OracleReport(merged)} :
          last' = [last EXCEPT !.op = "scan", !.res = "Ok", !.has_report = TRUE,
                               !.report = report]
    /\ UNCHANGED <<anchor, bak, cargo, tree>>

NextWalk ==
    \/ ManifestReadFails
    \/ StartWalk
    \/ VisitEntry
    \/ SkipDirectory
    \/ EnterDirectory
    \/ ReadDirFails
    \/ LeaveDirectory
    \/ FinishScan

\* The scan is one sequential call: while a step is possible, one is taken.
SpecWalk == InitWalk /\ [][NextWalk]_vars /\ WF_vars(NextWalk)

(***************************************************************************)
(* print_report: the lines it writes to standard output                    *)
(***************************************************************************)

\* The lines print_report writes for the locations of a detection from the
\* i-th on (two spaces before the icon, where the recommendations have three).
RECURSIVE PrintLocations(_, _)
PrintLocations(locations, i) ==
    IF i > Len(locations) THEN <<>>
    ELSE <<IF locations[i].line_number # None
           THEN "  (folder) " \o locations[i].file_path \o ":"
                \o ToString(CHOOSE n \in locations[i].line_number : TRUE)
                \o " - " \o locations[i].pattern_matched
           ELSE "  (folder) " \o locations[i].file_path \o " - "
                \o locations[i].pattern_matched>>
         \o PrintLocations(locations, i + 1)

\* One iteration of `for detection in &report.detected_oracles`.
PrintDetection(detection, verbose) ==
    <<ConfidenceIcon(detection.confidence) \o " " \o detection.oracle_type
        \o " Oracle (" \o detection.confidence \o " confidence)">>
    \o (IF verbose THEN PrintLocations(detection.locations, 1) ELSE <<>>)
    \o <<"  (bulb) " \o detection.migration_suggestion, "">>

RECURSIVE PrintDetections(_, _, _)
PrintDetections(detections, verbose, i) ==
    IF i > Len(detections) THEN <<>>
    ELSE PrintDetection(detections[i], verbose)
         \o PrintDetections(detections, verbose, i + 1)

\* print_report(report, verbose).  Colour and weight leave the text of a
\* line as it is.
print_report(report, verbose) ==
    <<"=== Oracle Detection Report ===", "">>
    \o (IF report.detected_oracles = <<>>
        THEN <<"(check) No oracle usage detected",
               "Your project should migrate smoothly to SOON Network without oracle changes.">>
        ELSE <<"(search) " \o ToString(Len(report.detected_oracles))
                  \o " oracle(s) detected:", "">>
             \o PrintDetections(report.detected_oracles, verbose, 1)
             \o <<"=== Migration Recommendations ===">>
             \o report.migration_recommendations
             \o (IF report.apro_integration_guide # None
                 THEN <<"", "(bulb) Run with --show-guide to see the complete APRO integration guide">>
                 ELSE <<>>))

\* The reports printed: scan_project's report on every merged list.
InitPrint ==
    /\ anchor = NoFile /\ bak = NoFile
    /\ cargo = NoManifest /\ tree = PlainTree
    /\ \E ds \in SampleLists : \E merged \in merge_detections(ds) :
          last = [NoCall EXCEPT !.has_report = TRUE, !.report = OracleReport(merged)]

PrintReport ==
    /\ last.op = "none"
    /\ \E verbose \in BOOLEAN :
          last' = [last EXCEPT !.op = "print", !.verbose = verbose,
                               !.printed = print_report(last.report, verbose)]
    /\ UNCHANGED <<anchor, bak, cargo, tree>>

NextPrint == PrintReport

SpecPrint == InitPrint /\ [][NextPrint]_vars

(***************************************************************************)
(* Properties                                                              *)
(***************************************************************************)

\* The last call was run_migration and it returned Ok.
MigrationReturnedOk == last.op = "migrate" /\ last.res = "Ok"

\* The last call was a run_migration that went through the rewrite and wrote
\* nothing back only because of its flags.
HadSomethingToWrite ==
    /\ last.pre.kind = "toml"
    /\ Rewrite(ParseToml(last.pre)).changed

\* C1: a run_migration with dry_run = true leaves Anchor.toml byte-identical
\* to what it was when the run began, and the result it returns has
\* config_updated = false.
C1_DryRunLeavesAnchorToml ==
    (last.op = "migrate" /\ last.dry_run) =>
        (anchor = last.pre /\ ~last.config_updated)

C1_Witness ==
    /\ MigrationReturnedOk /\ last.dry_run /\ ~last.oracle_only
    /\ HadSomethingToWrite
    /\ anchor.layout = "user"

\* C2: when a run_migration that was neither dry-run nor oracle-only returned
\* Ok and restore_backup is called next and returns Ok, Anchor.toml has
\* exactly the content it had before that run_migration and Anchor.toml.bak
\* no longer exists.
C2_RestoreAfterMigration ==
    [][(/\ MigrationReturnedOk /\ ~last.dry_run /\ ~last.oracle_only
        /\ last'.op = "restore" /\ last'.res = "Ok")
       => (anchor' = last.pre /\ bak' = NoFile)]_vars

\* A restore has put the user's file back in place of a rewritten one.
C2_Witness ==
    /\ last.op = "restore" /\ last.res = "Ok"
    /\ last.pre.layout = "pretty"
    /\ anchor.layout = "user"
    /\ bak = NoFile

\* restore_backup called with no Anchor.toml.bak returns BackupNotFound and
\* changes no file.
RestoreWithoutBackup ==
    (last'.op = "restore" /\ ~Exists(bak)) =>
        (last'.res = "BackupNotFound" /\ UNCHANGED <<anchor, bak, cargo, tree>>)

\* C3 as stated: RestoreWithoutBackup, and of two consecutive restore_backup
\* calls the second always fails with BackupNotFound.
C3_SecondRestoreAlwaysNotFound ==
    [][/\ RestoreWithoutBackup
       /\ (last.op = "restore" /\ last'.op = "restore") =>
              last'.res = "BackupNotFound"]_vars

\* C3, amended: RestoreWithoutBackup, and of two consecutive restore_backup
\* calls the second fails with BackupNotFound whenever the first returned Ok
\* or BackupNotFound (after a first call that failed with RestoreFailed the
\* backup is still there).
C3_SecondRestoreNotFound ==
    [][/\ RestoreWithoutBackup
       /\ (/\ last.op = "restore" /\ last.res \in {"Ok", "BackupNotFound"}
           /\ last'.op = "restore") =>
              last'.res = "BackupNotFound"]_vars

\* An earlier restore put the stale backup in place of Anchor.toml and
\* removed it; the restore just made found no backup.
C3_Witness ==
    /\ last.op = "restore" /\ last.res = "BackupNotFound"
    /\ anchor = StaleBackup /\ last.pre = StaleBackup
    /\ bak = NoFile

\* C4: a run_migration with oracle_only = true leaves Anchor.toml
\* byte-identical, whatever dry_run is, and when it returns Ok the result has
\* config_updated = false and carries an oracle report.
C4_OracleOnlyLeavesAnchorToml ==
    (last.op = "migrate" /\ last.oracle_only) =>
        /\ anchor = last.pre
        /\ last.res = "Ok" => (~last.config_updated /\ last.has_report)

C4_Witness ==
    /\ MigrationReturnedOk /\ last.oracle_only /\ ~last.dry_run
    /\ last.report.detected_oracles # <<>>
    /\ HadSomethingToWrite

\* What C5 says of the state a call leaves: run_migration and
\* run_oracle_scan_only fail with NotAnAnchorProject exactly when Anchor.toml
\* or Cargo.toml is missing, and then without having scanned or backed up.
ValidationDecides ==
    last.op \in {"migrate", "scan_only"} =>
        LET missing == ~Exists(last.pre) \/ ~cargo.exists
        IN /\ missing => (/\ last.res = "NotAnAnchorProject"
                          /\ last.steps = <<>>
                          /\ ~last.has_report)
           /\ ~missing => last.res # "NotAnAnchorProject"

\* C5: ValidationDecides, and a call that fails with NotAnAnchorProject
\* creates no backup and modifies no file.
C5_ValidationFailsFirst ==
    /\ []ValidationDecides
    /\ [][last'.res = "NotAnAnchorProject" =>
             UNCHANGED <<anchor, bak, cargo, tree>>]_vars

\* Anchor.toml is there, Cargo.toml is not.
C5_Witness ==
    /\ last.op = "migrate" /\ last.res = "NotAnAnchorProject"
    /\ Exists(anchor) /\ ~cargo.exists
    /\ ~last.dry_run /\ ~last.oracle_only

\* s is name in some letter case.
IsSpellingOf(s, name) ==
    /\ Len(s) = Len(name)
    /\ \A i \in 1..Len(name) :
          CharAt(s, i) \in {CharAt(name, i), UpperChar(CharAt(name, i))}

\* The last call rewrote a string provider.cluster and wrote the file.
WroteCluster ==
    /\ last.op = "migrate" /\ last.config_updated
    /\ last.pre.doc.ckind = "string"

\* C6: the cluster value written is one of the three endpoint URLs: the
\* mainnet URL for any letter-case spelling of mainnet-beta or mainnet, the
\* testnet URL for any spelling of testnet, the devnet URL for anything else.
C6_ClusterMapping ==
    WroteCluster =>
        LET in == last.pre.doc.cluster
            out == anchor.doc.cluster
            main == IsSpellingOf(in, "mainnet-beta") \/ IsSpellingOf(in, "mainnet")
            test == IsSpellingOf(in, "testnet")
        IN /\ out \in {MAINNET_RPC, TESTNET_RPC, DEVNET_RPC}
           /\ main => out = MAINNET_RPC
           /\ test => out = TESTNET_RPC
           /\ (~main /\ ~test) => out = DEVNET_RPC

C6_Witness ==
    /\ WroteCluster
    /\ last.pre.doc.cluster = "Mainnet-Beta"
    /\ anchor.doc.cluster = MAINNET_RPC

\* C7: a non-dry-run run_migration on an already migrated config (the file
\* the tool wrote, its cluster one of the endpoint URLs) leaves
\* provider.cluster equal to the value the first run wrote.
C7_RewriteIdempotentOnCluster ==
    (/\ WroteCluster
     /\ last.pre.layout = "pretty"
     /\ last.pre.doc.cluster \in {MAINNET_RPC, TESTNET_RPC, DEVNET_RPC})
    => anchor.doc.cluster = last.pre.doc.cluster

\* The network the programs section is renamed to, from the cluster value.
NetworkOf(cluster) ==
    IF StrContains(cluster, "mainnet") THEN "mainnet"
    ELSE IF StrContains(cluster, "testnet") THEN "testnet"
    ELSE "devnet"

\* C8: after a successful non-dry-run run_migration on a config with a string
\* provider.cluster and a programs.localnet entry, config_updated is true and
\* the file written has provider.cluster = map_cluster_to_soon(old cluster),
\* no programs.localnet, and the former localnet entries under
\* programs.<net>, <net> chosen by what the new cluster value contains.
C8_RewriteResult ==
    (/\ MigrationReturnedOk /\ ~last.dry_run /\ ~last.oracle_only
     /\ last.pre.doc.ckind = "string"
     /\ last.pre.doc.pk = "table" /\ TableHas(last.pre.doc.tbl, "localnet"))
    => LET old == last.pre.doc
           new == anchor.doc
           net == NetworkOf(new.cluster)
       IN /\ last.config_updated
          /\ anchor.kind = "toml"
          /\ new.ckind = "string" /\ new.cluster = map_cluster_to_soon(old.cluster)
          /\ new.pk = "table"
          /\ ~TableHas(new.tbl, "localnet")
          /\ TableHas(new.tbl, net)
          /\ TableGet(new.tbl, net) = TableGet(old.tbl, "localnet")

C8_Witness ==
    /\ MigrationReturnedOk /\ last.config_updated
    /\ last.pre.doc.cluster = "MAINNET"
    /\ <<"localnet", "ids_a">> \in last.pre.doc.tbl
    /\ anchor.doc.tbl = {<<"mainnet", "ids_a">>}
    /\ anchor.doc.cluster = MAINNET_RPC

\* The .rs files of the project the scan reads: those the walk reaches.
ScannedSources ==
    LET w == walk_directory(tree, ProjectPath)
    IN {v \in {w.visited[i] : i \in 1..Len(w.visited)} :
          Extension(v.node.name) = Some("rs") /\ v.node.readable}

\* The dependency names looked for in Cargo.toml, by provider.
ManifestPatterns(oracle_type) ==
    CASE oracle_type = "Pyth" -> {"pyth-solana-receiver-sdk"}
      [] oracle_type = "Switchboard" -> {"switchboard-v2", "switchboard_on_demand"}
      [] oracle_type = "Chainlink" -> {"chainlink_solana"}
      [] OTHER -> {}

InManifest(oracle_type) ==
    /\ cargo.exists /\ cargo.readable
    /\ \E p \in ManifestPatterns(oracle_type) : StrContains(cargo.text, p)

\* One of the provider's source patterns occurs in text; the DIA patterns
\* are looked for in any letter case.
InSource(text, prov) ==
    \E i \in 1..Len(prov.patterns) :
        IF prov.oracle_type = "DIA"
        THEN StrContains(ToLowercase(text), ToLowercase(prov.patterns[i]))
        ELSE StrContains(text, prov.patterns[i])

\* C9: for a provider whose manifest pattern occurs in Cargo.toml and whose
\* source patterns occur in k >= 1 scanned .rs files, the report has exactly
\* one detection, of confidence High, with 1 + k locations: the Cargo.toml
\* location first, then one for each of the k files.
C9_ManifestAndSourcesMerged ==
    last.has_report =>
        \A prov \in {PythProvider, SwitchboardProvider, ChainlinkProvider} :
            LET files == {v \in ScannedSources : InSource(v.node.text, prov)}
                k == Cardinality(files)
                dets == last.report.detected_oracles
                found == {i \in 1..Len(dets) : dets[i].oracle_type = prov.oracle_type}
            IN (InManifest(prov.oracle_type) /\ k >= 1) =>
                  /\ Cardinality(found) = 1
                  /\ \A i \in found :
                        LET locs == dets[i].locations
                        IN /\ dets[i].confidence = "High"
                           /\ Len(locs) = 1 + k
                           /\ locs[1].file_path = "Cargo.toml"
                           /\ {locs[j].file_path : j \in 2..Len(locs)}
                                 = {v.path : v \in files}

\* Pyth in the manifest and in two source files: three locations.
C9_Witness ==
    /\ last.has_report
    /\ InManifest("Pyth")
    /\ Cardinality({v \in ScannedSources : InSource(v.node.text, PythProvider)}) = 2
    /\ \E i \in 1..Len(last.report.detected_oracles) :
          /\ last.report.detected_oracles[i].oracle_type = "Pyth"
          /\ Len(last.report.detected_oracles[i].locations) = 3

\* No manifest pattern occurs in Cargo.toml and no source pattern in any
\* scanned .rs file.
NoPatternOccurs ==
    /\ \A t \in OracleType : ~InManifest(t)
    /\ \A v \in ScannedSources :
          \A i \in 1..Len(SourceProviders) : ~InSource(v.node.text, SourceProviders[i])

\* C10: the report's apro_integration_guide is Some exactly when
\* detected_oracles is non-empty; and when no pattern occurs in Cargo.toml or
\* in a scanned .rs file (occurs as the scanner looks for it: the DIA
\* patterns in any letter case, all others as written), detected_oracles is
\* empty, the guide is None and migration_recommendations is the single
\* no-oracle-usage line.
C10_GuideIffDetections ==
    last.has_report =>
        LET r == last.report
        IN /\ (r.apro_integration_guide # None) <=> (r.detected_oracles # <<>>)
           /\ NoPatternOccurs =>
                 /\ r.detected_oracles = <<>>
                 /\ r.apro_integration_guide = None
                 /\ r.migration_recommendations = <<NoOracleLine>>

\* Oracle code lies only where the scan does not look.
C10_Witness ==
    /\ last.has_report
    /\ tree = SkippedTree
    /\ NoPatternOccurs
    /\ last.report.detected_oracles = <<>>
    /\ last.report.apro_integration_guide = None

\* The chunks of a guide that open a code-example section.
SectionHeaders(guide) ==
    {j \in 1..Len(guide) :
        Len(guide[j]) >= 18 /\ SubSeq(guide[j], 1, 18) = "## Migrating from "}

\* C11: a DIA or RedStone detection (weak pattern matches are their only
\* evidence) has confidence Low, and the guide of a report holds the section
\* "Migrating from X" once for each detected X among Pyth, Switchboard and
\* Chainlink and holds no other such section: none for DIA, RedStone, APRO or
\* Unknown.
C11_WeakProvidersLowAndWithoutSection ==
    last.has_report =>
        LET dets == last.report.detected_oracles
            detected == {dets[i].oracle_type : i \in 1..Len(dets)}
            withExample == detected \cap {"Pyth", "Switchboard", "Chainlink"}
        IN /\ \A i \in 1..Len(dets) :
                 dets[i].oracle_type \in {"DIA", "RedStone"} => dets[i].confidence = "Low"
           /\ \A guide \in last.report.apro_integration_guide :
                 /\ \A t \in OracleType :
                       Cardinality({j \in 1..Len(guide) :
                                      guide[j] = "## Migrating from " \o t \o "\n"})
                          = IF t \in withExample THEN 1 ELSE 0
                 /\ Cardinality(SectionHeaders(guide)) = Cardinality(withExample)

\* DIA is detected next to Switchboard and Chainlink; the guide has two
\* sections.
C11_Witness ==
    /\ last.has_report
    /\ \E i \in 1..Len(last.report.detected_oracles) :
          /\ last.report.detected_oracles[i].oracle_type = "DIA"
          /\ last.report.detected_oracles[i].confidence = "Low"
    /\ \E guide \in last.report.apro_integration_guide :
          Cardinality(SectionHeaders(guide)) = 2

\* The last run_migration got to the point where it writes Anchor.toml.
ReachedWrite ==
    /\ last.op = "migrate"
    /\ last.config_updated \/ last.res = "WriteFailed" \/ anchor # last.pre

\* C12: a run_migration that got to writing Anchor.toml (the write done, or
\* begun and failed) had completed the backup before, so that Anchor.toml.bak
\* holds the content Anchor.toml had when the run began; and a run whose
\* backup copy fails ends with BackupFailed, Anchor.toml as it was.
C12_BackupPrecedesWrite ==
    /\ ReachedWrite =>
          /\ bak = last.pre
          /\ Len(last.steps) >= 2 /\ SubSeq(last.steps, 1, 2) = <<"scan", "backup">>
    /\ (last.op = "migrate" /\ last.res = "BackupFailed") =>
          (anchor = last.pre /\ ~last.config_updated /\ last.steps = <<"scan">>)

C12_Witness ==
    /\ ReachedWrite /\ last.config_updated
    /\ last.pre.layout = "user" /\ anchor.layout = "pretty"
    /\ anchor.doc # last.pre.doc
    /\ bak = last.pre

\* C13 as stated: after any successful run_migration, Anchor.toml.bak exists
\* and holds the content Anchor.toml had before the run, with dry_run set and
\* with oracle_only set as well.
C13_BackupUnconditional ==
    MigrationReturnedOk => (Exists(bak) /\ bak = last.pre)

\* C13, amended: after a successful run_migration without oracle_only,
\* Anchor.toml.bak exists and holds the content Anchor.toml had before the
\* run, with dry_run set as well; a run_migration with oracle_only makes no
\* backup and leaves Anchor.toml.bak as it was.
C13_BackupUnlessOracleOnly ==
    /\ [](MigrationReturnedOk /\ ~last.oracle_only => (Exists(bak) /\ bak = last.pre))
    /\ [][(last'.op = "migrate" /\ last'.oracle_only) => bak' = bak]_vars

\* A dry run that had something to write: the backup is there and is the
\* Anchor.toml the run found.
C13_Witness ==
    /\ MigrationReturnedOk /\ last.dry_run /\ ~last.oracle_only
    /\ HadSomethingToWrite
    /\ bak = last.pre /\ bak = TestAnchorFile

\* C14: on a successful run_migration without oracle_only, dry run or not,
\* warnings is non-empty exactly when the report has a detection; it is then
\* the general oracle-usage warning followed by one warning for each merged
\* detection of confidence High and no other; next_steps has four entries.
C14_WarningsAndNextSteps ==
    (MigrationReturnedOk /\ ~last.oracle_only) =>
        LET dets == last.report.detected_oracles
            high == {i \in 1..Len(dets) : dets[i].confidence = "High"}
            w == last.warnings
        IN /\ (w # <<>>) <=> (dets # <<>>)
           /\ dets # <<>> =>
                 /\ Len(w) = 1 + Cardinality(high)
                 /\ w[1] = "Oracle usage detected in your project. Review the oracle migration recommendations."
                 /\ {w[j] : j \in 2..Len(w)}
                       = {dets[i].oracle_type
                            \o " oracle detected - migration required for SOON compatibility" :
                          i \in high}
           /\ Len(last.next_steps) = 4

\* Three detections, two of them High: three warnings.
C14_Witness ==
    /\ MigrationReturnedOk /\ ~last.oracle_only /\ last.dry_run
    /\ Len(last.report.detected_oracles) = 3
    /\ \E i \in 1..3 : last.report.detected_oracles[i].confidence = "Low"
    /\ Len(last.warnings) = 3

\* C15: run_migration writes Anchor.toml and returns config_updated = true
\* only when dry_run is false and a field of the config changed value; when
\* the rewritten config equals the one on disk, nothing is written and
\* config_updated is false.
C15_WritesOnlyWhatChanged ==
    last.op = "migrate" =>
        /\ last.config_updated => (~last.dry_run /\ anchor.doc # last.pre.doc)
        /\ (/\ MigrationReturnedOk /\ ~last.oracle_only
            /\ Rewrite(ParseToml(last.pre)).doc = ParseToml(last.pre))
           => (~last.config_updated /\ anchor = last.pre)

\* C16: after a series of one or more successful run_migration calls, dry
\* runs or not, none oracle-only, a restore_backup that follows returns
\* Anchor.toml to the content it had before the first call of the series.
C16_RestoreReturnsOriginal ==
    [][(/\ MigrationReturnedOk /\ ~last.oracle_only
        /\ last'.op = "restore" /\ last'.res = "Ok")
       => anchor' = last.origin]_vars

\* The network an endpoint URL belongs to.
UrlNetwork(url) ==
    CASE url = MAINNET_RPC -> "mainnet"
      [] url = TESTNET_RPC -> "testnet"
      [] url = DEVNET_RPC -> "devnet"
      [] OTHER -> "none"

\* C17: after one or more successful non-dry-run run_migration calls that
\* began from a config with provider.cluster one of mainnet-beta, mainnet,
\* testnet, devnet and with a programs.localnet table, the former localnet
\* entries are under the programs key that names the network the
\* provider.cluster URL points to.
C17_ProgramsKeyNamesEndpointNetwork ==
    (/\ MigrationReturnedOk /\ ~last.dry_run /\ ~last.oracle_only
     /\ last.origin.kind = "toml" /\ last.origin.doc.ckind = "string"
     /\ last.origin.doc.cluster \in {"mainnet-beta", "mainnet", "testnet", "devnet"}
     /\ last.origin.doc.pk = "table" /\ TableHas(last.origin.doc.tbl, "localnet"))
    => LET net == UrlNetwork(anchor.doc.cluster)
       IN /\ TableHas(anchor.doc.tbl, net)
          /\ TableGet(anchor.doc.tbl, net) = TableGet(last.origin.doc.tbl, "localnet")

\* The i-th source pattern of a provider matches text: it occurs in it, for
\* DIA in any letter case.
PatternOccurs(text, prov, i) ==
    IF prov.oracle_type = "DIA"
    THEN StrContains(ToLowercase(text), ToLowercase(prov.patterns[i]))
    ELSE StrContains(text, prov.patterns[i])

\* The locations the report gives for a provider in the file at path, each
\* as <<detection, location>>.
LocationsIn(oracle_type, path) ==
    LET dets == last.report.detected_oracles
    IN UNION {{<<d, l>> : l \in {k \in 1..Len(dets[d].locations) :
                                   dets[d].locations[k].file_path = path}} :
              d \in {e \in 1..Len(dets) : dets[e].oracle_type = oracle_type}}

\* C18: for every scanned source file and every provider, the scan has one
\* detection of the provider in the file if one of the provider's patterns
\* matches the file and none otherwise, and its pattern_matched is the first
\* pattern in the provider's list that matches; each provider is looked for
\* in each file on its own.  (Every detection of scan_rust_content carries
\* one location, and the merge keeps them all: the detections made in a file
\* are the report's locations in that file.)
C18_FirstMatchingPatternPerProvider ==
    last.has_report =>
        \A v \in ScannedSources : \A p \in 1..Len(SourceProviders) :
            LET prov == SourceProviders[p]
                matching == {i \in 1..Len(prov.patterns) : PatternOccurs(v.node.text, prov, i)}
                found == LocationsIn(prov.oracle_type, v.path)
                dets == last.report.detected_oracles
            IN IF matching = {}
               THEN found = {}
               ELSE /\ Cardinality(found) = 1
                    /\ \A dl \in found :
                          dets[dl[1]].locations[dl[2]].pattern_matched
                             = prov.patterns[CHOOSE i \in matching :
                                                \A j \in matching : i <= j]

\* A file in which the fourth Switchboard pattern comes before the first:
\* the first is reported.  Another provider is found in another file.
C18_Witness ==
    /\ last.has_report
    /\ \E v \in ScannedSources :
          /\ PatternOccurs(v.node.text, SwitchboardProvider, 1)
          /\ PatternOccurs(v.node.text, SwitchboardProvider, 4)
          /\ \E dl \in LocationsIn("Switchboard", v.path) :
                LET loc == last.report.detected_oracles[dl[1]].locations[dl[2]]
                IN loc.pattern_matched = "use switchboard_v2" /\ loc.line_number = Some(2)
    /\ \E v \in ScannedSources : LocationsIn("DIA", v.path) # {}

\* The oracle types of a list of detections.
TypesOf(detections) == {detections[i].oracle_type : i \in 1..Len(detections)}

\* C19: merge_detections returns one detection for each oracle_type of its
\* input and none for another type: the types of the output are those of the
\* input, each once.
C19_OneDetectionPerType ==
    last.op = "merge" =>
        /\ TypesOf(last.merged) = TypesOf(last.detections)
        /\ Len(last.merged) = Cardinality(TypesOf(last.detections))

\* Three detections of two types go in, two come out.
C19_Witness ==
    /\ last.op = "merge"
    /\ Len(last.detections) = 3
    /\ TypesOf(last.detections) = {"Pyth", "Unknown"}
    /\ Len(last.merged) = 2

\* Low < Medium < High
Rank(confidence) ==
    CASE confidence = "Low" -> 1
      [] confidence = "Medium" -> 2
      [] confidence = "High" -> 3

\* C20: the confidence of each merged detection is the highest, under
\* Low < Medium < High, of the confidences of the input detections of its
\* type, in whatever order they come, Medium included.
C20_ConfidenceIsMaximum ==
    last.op = "merge" =>
        \A i \in 1..Len(last.merged) :
            LET of == {j \in 1..Len(last.detections) :
                         last.detections[j].oracle_type = last.merged[i].oracle_type}
            IN /\ of # {}
               /\ \A j \in of :
                     Rank(last.detections[j].confidence) <= Rank(last.merged[i].confidence)
               /\ \E j \in of :
                     last.detections[j].confidence = last.merged[i].confidence

\* Medium, then High, then Low of one type: High.
C20_Witness ==
    /\ last.op = "merge"
    /\ Len(last.detections) = 3
    /\ TypesOf(last.detections) = {"Pyth"}
    /\ last.detections[1].confidence = "Medium"
    /\ last.detections[2].confidence = "High"
    /\ last.detections[3].confidence = "Low"
    /\ Len(last.merged) = 1 /\ last.merged[1].confidence = "High"

\* The locations of the detections of one type, in the order of the list.
RECURSIVE LocationsOfType(_, _, _)
LocationsOfType(detections, oracle_type, i) ==
    IF i > Len(detections) THEN <<>>
    ELSE (IF detections[i].oracle_type = oracle_type
          THEN detections[i].locations ELSE <<>>)
         \o LocationsOfType(detections, oracle_type, i + 1)

RECURSIVE CountLocations(_, _)
CountLocations(detections, i) ==
    IF i > Len(detections) THEN 0
    ELSE Len(detections[i].locations) + CountLocations(detections, i + 1)

\* C21: the locations of each merged detection are the locations of the
\* input detections of its type, concatenated in input order, none dropped,
\* doubled or moved; the merged detections together hold as many locations
\* as the input.
C21_LocationsConcatenated ==
    last.op = "merge" =>
        /\ \A i \in 1..Len(last.merged) :
              last.merged[i].locations
                 = LocationsOfType(last.detections, last.merged[i].oracle_type, 1)
        /\ CountLocations(last.merged, 1) = CountLocations(last.detections, 1)

\* Three detections of one type, the second with two locations, the third
\* equal to the first: four locations in that order.
C21_Witness ==
    /\ last.op = "merge"
    /\ Len(last.detections) = 3
    /\ TypesOf(last.detections) = {"Pyth"}
    /\ Len(last.detections[2].locations) = 2
    /\ last.detections[3] = last.detections[1]
    /\ Len(last.merged) = 1
    /\ Len(last.merged[1].locations) = 4
    /\ last.merged[1].locations[2].file_path = "Cargo.toml"

\* The detections a scan of the project hands to merge_detections: those of
\* the manifest, then those of the sources.
ScannerDetections ==
    scan_cargo_toml(cargo).dets \o scan_rust_files(tree, ProjectPath).dets

TextAt(file_path) ==
    IF file_path = "Cargo.toml" THEN cargo.text
    ELSE (CHOOSE v \in ScannedSources : v.path = file_path).node.text

\* C23: every location of a detection has a line_number, and it is the
\* 1-based index of the first line of the file that contains
\* pattern_matched; it is never None.
C23_LineNumberPresent ==
    last.has_report =>
        \A d \in 1..Len(last.report.detected_oracles) :
            \A l \in 1..Len(last.report.detected_oracles[d].locations) :
                LET loc == last.report.detected_oracles[d].locations[l]
                    lines == Lines(TextAt(loc.file_path))
                IN /\ loc.line_number # None
                   /\ \A n \in loc.line_number :
                         /\ n \in 1..Len(lines)
                         /\ StrContains(lines[n], loc.pattern_matched)
                         /\ \A k \in 1..(n - 1) :
                               ~StrContains(lines[k], loc.pattern_matched)

\* A pattern of the provider occurs in text in some letter case.
OccursInAnyCase(text, prov) ==
    \E i \in 1..Len(prov.patterns) :
        StrContains(ToLowercase(text), ToLowercase(prov.patterns[i]))

\* A pattern of the provider occurs in text as written.
OccursExactly(text, prov) ==
    \E i \in 1..Len(prov.patterns) : StrContains(text, prov.patterns[i])

\* C24: a source file that contains a DIA or RedStone pattern in any letter
\* case yields a detection of that provider; for Pyth, Switchboard and
\* Chainlink a file yields a detection exactly when it contains a pattern as
\* written.
C24_WeakProvidersIgnoreCase ==
    last.has_report =>
        \A v \in ScannedSources :
            /\ \A prov \in {DiaProvider, RedStoneProvider} :
                  OccursInAnyCase(v.node.text, prov)
                  => LocationsIn(prov.oracle_type, v.path) # {}
            /\ \A prov \in {PythProvider, SwitchboardProvider, ChainlinkProvider} :
                  OccursExactly(v.node.text, prov)
                  <=> LocationsIn(prov.oracle_type, v.path) # {}

RECURSIVE UnreadableDirReached(_)
UnreadableDirReached(node) ==
    /\ node.kind = "dir"
    /\ \/ ~node.readable
       \/ \E i \in 1..Len(node.children) :
             /\ node.children[i].kind = "dir"
             /\ node.children[i].name \notin {"target", "node_modules", ".git"}
             /\ UnreadableDirReached(node.children[i])

\* The last call ran the oracle scan.
ScanRan ==
    /\ last.op \in {"migrate", "scan_only", "scan"}
    /\ last.steps # <<>>

\* The files the walk hands to the visitor.
VisitedFiles ==
    LET w == walk_directory(tree, ProjectPath)
    IN {w.visited[i] : i \in 1..Len(w.visited)}

\* C26: a scan whose walk comes to a directory it cannot read fails with
\* OracleDetectionFailed and gives no report; a scan that meets no read error
\* but on the content of .rs files gives a report, in which an unreadable
\* file has no detection and every readable file that matches has one.
C26_ReadErrors ==
    ScanRan =>
        /\ UnreadableDirReached(tree) =>
              (last.res = "OracleDetectionFailed" /\ ~last.has_report)
        /\ (~UnreadableDirReached(tree) /\ (cargo.exists => cargo.readable)) =>
              /\ last.has_report /\ last.res # "OracleDetectionFailed"
              /\ \A v \in VisitedFiles : \A p \in 1..Len(SourceProviders) :
                    LET prov == SourceProviders[p]
                        found == LocationsIn(prov.oracle_type, v.path)
                    IN IF ~v.node.readable THEN found = {}
                       ELSE (Extension(v.node.name) = Some("rs")
                             /\ InSource(v.node.text, prov)) => found # {}

\* The walk found Pyth in a file before it came to the unreadable
\* directory: the scan fails all the same.
C26_Witness ==
    /\ ScanRan /\ last.op = "scan"
    /\ last.res = "OracleDetectionFailed" /\ ~last.has_report
    /\ UnreadableDirReached(tree)
    /\ \E i \in 1..Len(tree.children) :
          /\ tree.children[i].kind = "dir" /\ tree.children[i].readable
          /\ \E j \in 1..Len(tree.children[i].children) :
                InSource(tree.children[i].children[j].text, PythProvider)

\* name is a file name with extension rs.
EndsInRs(name) ==
    /\ Len(name) > 3
    /\ SubSeq(name, Len(name) - 2, Len(name)) = ".rs"

\* The files the visitor of scan_rust_files reads.
ReadByScan == {v \in VisitedFiles : Extension(v.node.name) = Some("rs")}

\* C27: a scan that meets no unreadable manifest and no unreadable directory
\* outside the pruned ones gives a report; it has read exactly the files
\* named *.rs that no pruned directory below the root hides, and its
\* detections in source files are at those files only: a matching .rs file
\* under target, node_modules or .git has no location, a matching one
\* elsewhere has one.
C27_ScansExactlyUnprunedRustFiles ==
    (ScanRan /\ ~UnreadableDirReached(tree) /\ (cargo.exists => cargo.readable)) =>
        LET expected == {f \in FilesBelow(tree, ProjectPath, FALSE) :
                            ~f.pruned /\ EndsInRs(f.node.name)}
        IN /\ last.has_report
           /\ {v.path : v \in ReadByScan} = {f.path : f \in expected}
           /\ \A f \in FilesBelow(tree, ProjectPath, FALSE) :
                 \A p \in 1..Len(SourceProviders) :
                    LET prov == SourceProviders[p]
                        found == LocationsIn(prov.oracle_type, f.path)
                    IN IF f \in expected
                       THEN (f.node.readable /\ InSource(f.node.text, prov)) => found # {}
                       ELSE found = {}

\* A scan of a tree with matching files under target and node_modules, with
\* a matching file that is not a .rs file, and with a .rs file that is read.
C27_Witness ==
    /\ ScanRan /\ last.has_report
    /\ \E f \in FilesBelow(tree, ProjectPath, FALSE) :
          f.pruned /\ EndsInRs(f.node.name) /\ InSource(f.node.text, PythProvider)
    /\ \E f \in FilesBelow(tree, ProjectPath, FALSE) :
          ~f.pruned /\ ~EndsInRs(f.node.name) /\ InSource(f.node.text, PythProvider)
    /\ ReadByScan # {}
    /\ \A i \in 1..Len(last.report.detected_oracles) :
          \A j \in 1..Len(last.report.detected_oracles[i].locations) :
             last.report.detected_oracles[i].locations[j].file_path = PathJoin(ProjectPath, "Cargo.toml")

\* C28: a run_migration that returns NotAnAnchorProject,
\* OracleDetectionFailed, BackupFailed, ReadFailed or TomlParseError leaves
\* Anchor.toml as it found it; these, Ok and WriteFailed are all it returns,
\* so that Anchor.toml differs only after a run that came to the write.
C28_EarlyErrorsLeaveAnchorToml ==
    last.op = "migrate" =>
        /\ last.res \in {"Ok", "WriteFailed", "NotAnAnchorProject",
                         "OracleDetectionFailed", "BackupFailed", "ReadFailed",
                         "TomlParseError"}
        /\ last.res \in {"NotAnAnchorProject", "OracleDetectionFailed",
                         "BackupFailed", "ReadFailed", "TomlParseError"}
              => anchor = last.pre
        /\ anchor # last.pre => last.res \in {"Ok", "WriteFailed"}

\* A run that was to rewrite Anchor.toml fails to read it after the backup
\* was made.
C28_Witness ==
    /\ last.op = "migrate" /\ ~last.dry_run /\ ~last.oracle_only
    /\ last.res = "ReadFailed"
    /\ last.steps = <<"scan", "backup">>
    /\ ParsesAsToml(last.pre)
    /\ Rewrite(ParseToml(last.pre)).changed
    /\ bak = last.pre

\* The files below the project directory that no pruned directory hides.
UnprunedPaths ==
    {f.path : f \in {g \in FilesBelow(tree, ProjectPath, FALSE) : ~g.pruned}}

\* scan_project has returned.
ScanReturned == last.op = "scan"

\* At every step of a scan the callback has been applied to unpruned files
\* only and to none of them twice, and a scan that has returned gave an
\* error, or a report after the callback was applied to every unpruned file.
WalkVisitsOnce ==
    /\ \A i, j \in 1..Len(last.visited) :
          last.visited[i].path = last.visited[j].path => i = j
    /\ {last.visited[i].path : i \in 1..Len(last.visited)} \subseteq UnprunedPaths
    /\ ScanReturned =>
          /\ last.res \in {"Ok", "OracleDetectionFailed"}
          /\ last.has_report <=> last.res = "Ok"
          /\ last.res = "Ok" <=> (\E s \in scan_project(cargo, tree) : s.ok)
          /\ last.res = "Ok" =>
                /\ {last.visited[i].path : i \in 1..Len(last.visited)} = UnprunedPaths
                /\ {last.visited[i] : i \in 1..Len(last.visited)} = VisitedFiles

\* C29: on every project tree scan_project, taken one directory entry at a
\* time, comes to return, a report or an error, and its walk applies the
\* callback to each file that no pruned directory hides exactly once.
C29_ScanTerminatesVisitingOnce ==
    /\ <>ScanReturned
    /\ []WalkVisitsOnce

\* A scan returned a report after a walk that went past pruned directories
\* and applied the callback to three files.
C29_Witness ==
    /\ ScanReturned /\ last.res = "Ok" /\ last.has_report
    /\ Len(last.visited) = 3
    /\ \E f \in FilesBelow(tree, ProjectPath, FALSE) : f.pruned

\* The lines of an output that show a location: the folder icon, the file,
\* the line number if there is one, and the pattern.
LocationLinesOf(printed) ==
    {i \in 1..Len(printed) : StrContains(printed[i], "(folder) ")}

\* C30: the output of print_report with verbose = true has one location
\* line for each location of each detection of the report, and its output
\* with verbose = false has no location line.
C30_LocationLinesOnlyWhenVerbose ==
    last.op = "print" =>
        Cardinality(LocationLinesOf(last.printed))
            = IF last.verbose THEN CountLocations(last.report.detected_oracles, 1)
              ELSE 0

====
